---- MODULE Spec2Model ----
(***************************************************************************)
(* Ingestion of a pool_stats.json snapshot into the relational store, as   *)
(* done by scripts/updateUsersFromLogs (the batched, transacted variant    *)
(* and the older sequential, untransacted variant) and by the seed script  *)
(* that records the pool-level rollup (scripts/seed with its top users,    *)
(* and its two older versions).                                            *)
(*                                                                         *)
(* The store keeps committed rows only.  A transaction buffers its writes  *)
(* in the task's `pending` list and applies them atomically on commit; a   *)
(* rollback discards them.  Every storage call may fail.                   *)
(***************************************************************************)
EXTENDS Integers, Sequences, FiniteSets, TLC

\* ------------------------------------------------------------------ bounds
\* Number of distinct addresses a snapshot may hold.
MaxUsers == 3
\* Number of sequential invocations (the periodic trigger re-invokes the run).
MaxRuns == 2
\* The batch size.  The source sets 10; the model keeps the name and scales
\* the value down so that several batches fit into MaxUsers addresses.
BATCH_SIZE == 2

Addresses == 1..MaxUsers

\* ------------------------------------------------------------ snapshot data
\* The user record of an address in pool_stats.json.  `workers` may be absent
\* from the record, present and empty, or hold named workers (in key order).
P2PoolUser(a) ==
  CASE a = 1 -> [hasWorkers |-> TRUE,  workers |-> <<"rig1", "rig2">>]
    [] a = 2 -> [hasWorkers |-> FALSE, workers |-> <<>>]
    [] a = 3 -> [hasWorkers |-> TRUE,  workers |-> <<>>]
    [] OTHER -> [hasWorkers |-> TRUE,  workers |-> <<"rig1">>]

\* Object.entries(user.workers || {}): the worker names in key order.
WorkerEntries(a) ==
  IF P2PoolUser(a).hasWorkers THEN P2PoolUser(a).workers ELSE <<>>

\* worker.lastshare of a worker record: a set holding the number, empty when
\* the record has no lastshare.
WorkerLastshare(a, name) ==
  CASE a = 1 /\ name = "rig1" -> {7}
    [] a = 1 /\ name = "rig2" -> {}
    [] OTHER -> {5}

Range(s) == {s[k] : k \in 1..Len(s)}

\* The snapshots of the model: the first n addresses, for every n up to
\* MaxUsers, in ascending and in descending key order.
Ascending(n) == [k \in 1..n |-> k]

Descending(n) == [k \in 1..n |-> n + 1 - k]

Snapshots == {Ascending(n) : n \in 0..MaxUsers} \cup
             {Descending(n) : n \in 0..MaxUsers}

Min(x, y) == IF x < y THEN x ELSE y

\* -------------------------------------------------------------------- state
VARIABLES
  json,       \* the parsed snapshot: the addresses of json.users in key order
  run,        \* number of the current invocation
  pc,         \* position of updateUsersFromJson
  i,          \* the batch loop's index (0-based, as in the source)
  batches,    \* the batches formed so far in this invocation
  tasks,      \* per address: the unit of work started for it in this invocation
  store,      \* committed rows of User, UserStats, Worker, WorkerStats; a
              \* row carries the number of the invocation that created it
              \* and of the one whose upsert touched it last
  dbOpen,     \* the datasource is initialized and not destroyed
  poolInUse,  \* connections checked out of the pool
  error,      \* the rejection the invocation ends with (empty: none)
  reported,   \* the causes written to the error log by the invocation
  outcomes,   \* how each finished invocation settled, oldest first
  script,     \* the script the invocation runs
  p2pool,     \* the parsed snapshot as the seed script reads it: the
              \* hashrate rollups of the document, its users and workers
  poolStats,  \* committed rows of PoolStats
  topUsers,   \* the ranked users the seed script goes through
  dbLog,      \* what was done with the datasource, in order
  connectionPromise,  \* the cached promise of lib/db: the number of the
              \* initialization it belongs to, 0 for null
  initializations,    \* the state of every AppDataSource.initialize() call
              \* made so far, oldest first
  callers,    \* the callers of getDb: what each is waiting for or got
  other       \* the unit of work of an invocation of the batched variant
              \* that runs at the same time as this one

\* The state of the seed script.
seedVars == <<script, p2pool, poolStats, topUsers, dbLog>>

\* The state of getDb of lib/db.
getDbVars == <<connectionPromise, initializations, callers>>

vars == <<json, run, pc, i, batches, tasks, store, dbOpen, poolInUse,
          error, reported, outcomes, seedVars, getDbVars, other>>

\* Entries in which every key of the mapping occurs twice.
DuplicatedEntries == json \o json

\* Object.entries(json.users || {}) of the batched variant.
userEntries == json

IdleTask ==
  [st |-> "idle", pos |-> "none", wi |-> 0, dbUser |-> {}, dbWorker |-> {},
   pending |-> <<>>, attempts |-> 0]

EmptyStore ==
  [users |-> {}, userStats |-> {}, workers |-> {}, workerStats |-> {}]

Init ==
  /\ json \in Snapshots
  /\ run = 1
  /\ pc = "read"
  /\ i = 0
  /\ batches = <<>>
  /\ tasks = [a \in Addresses |-> IdleTask]
  /\ store = EmptyStore
  /\ dbOpen = FALSE
  /\ poolInUse = 0
  /\ error = {}
  /\ reported = {}
  /\ outcomes = <<>>
  /\ script = "updateUsersFromLogs"
  /\ p2pool = [computed_hashrate |-> {}, users |-> <<>>]
  /\ poolStats = {}
  /\ topUsers = <<>>
  /\ dbLog = <<>>
  /\ connectionPromise = 0
  /\ initializations = <<>>
  /\ callers = <<>>
  /\ other = IdleTask

\* ----------------------------------------------------------- storage backend
\* Applying one write to the committed rows.  An insert adds a row; an update
\* rewrites the columns of the rows with the key of the row it was loaded from.
ApplyWrite(s, w) ==
  CASE w.tbl = "User" ->
         [s EXCEPT !.users =
            IF w.op = "update"
            THEN {IF u.address = w.row.address
                  THEN [u EXCEPT !.isActive = w.row.isActive,
                                 !.updated = w.row.updated]
                  ELSE u : u \in @}
            ELSE @ \cup {w.row}]
    [] w.tbl = "UserStats" ->
         [s EXCEPT !.userStats = @ \cup {w.row}]
    [] w.tbl = "Worker" ->
         [s EXCEPT !.workers =
            IF w.op = "update"
            THEN {IF x.id = w.row.id
                  THEN [x EXCEPT !.updated = w.row.updated]
                  ELSE x : x \in @}
            ELSE @ \cup {w.row}]
    [] OTHER ->
         [s EXCEPT !.workerStats = @ \cup {w.row}]

RECURSIVE ApplyAll(_, _)
ApplyAll(s, ws) ==
  IF ws = <<>> THEN s ELSE ApplyAll(ApplyWrite(s, Head(ws)), Tail(ws))

\* A lookup that never finds the row it is asked for.
FindNothing(matching) == {{}}

\* repository.findOne: no row (the empty set) or one matching row.
FindOne(matching) ==
  IF matching = {} THEN {{}} ELSE {{r} : r \in matching}


\* ------------------------------------------ the batched, transacted variant
\* The writes of a unit of work go through the repositories of the
\* transaction's manager, so they are buffered until the commit.
UsesManager == TRUE

\* repository.save inside the unit of work of address a: the committed rows
\* and the task's buffer afterwards.
StoreAfterSave(a, w) ==
  IF UsesManager THEN store ELSE ApplyWrite(store, w)

PendingAfterSave(a, w) ==
  IF UsesManager THEN Append(tasks[a].pending, w) ELSE tasks[a].pending

\* Rows one invocation inserts for the same key are told apart by a serial
\* number, which stands for the surrogate id of a history row.
NextSeq(rows) == Cardinality(rows) + 1

\* A slice whose end is inclusive: one entry too many.
SliceInclusive(s, from, to) == SubSeq(s, from + 1, Min(to + 1, Len(s)))

\* batch = userEntries.slice(i, i + BATCH_SIZE)
Slice(s, from, to) == SubSeq(s, from + 1, Min(to, Len(s)))

Batch == Slice(userEntries, i, i + BATCH_SIZE)

\* The addresses of the batch the invocation is waiting for.
InBatch(a) == pc = "await" /\ a \in Range(batches[Len(batches)])

\* fs.readFileSync + JSON.parse succeed.
ReadSnapshot ==
  /\ pc = "read"
  /\ pc' = "getDb"
  /\ UNCHANGED <<seedVars, getDbVars, other>>
  /\ UNCHANGED <<json, run, i, batches, tasks, store, dbOpen, poolInUse,
                 error, reported, outcomes>>

\* fs.readFileSync or JSON.parse throws: the invocation rejects before any
\* datasource exists, and the rejection is logged by .catch(console.error).
ReadFails ==
  /\ pc = "read"
  /\ pc' = "done"
  /\ error' = {[kind |-> "fatal", address |-> 0, at |-> "read"]}
  /\ reported' = error'
  /\ outcomes' = Append(outcomes, "rejected")
  /\ UNCHANGED <<seedVars, getDbVars, other>>
  /\ UNCHANGED <<json, run, i, batches, tasks, store, dbOpen, poolInUse>>

\* await getDb() resolves.
GetDb ==
  /\ pc = "getDb"
  /\ dbOpen' = TRUE
  /\ pc' = "loop"
  /\ UNCHANGED <<seedVars, getDbVars, other>>
  /\ UNCHANGED <<json, run, i, batches, tasks, store, poolInUse,
                 error, reported, outcomes>>

\* await getDb() rejects: outside the try, so nothing is destroyed.
GetDbFails ==
  /\ pc = "getDb"
  /\ pc' = "done"
  /\ error' = {[kind |-> "fatal", address |-> 0, at |-> "getDb"]}
  /\ reported' = error'
  /\ outcomes' = Append(outcomes, "rejected")
  /\ UNCHANGED <<seedVars, getDbVars, other>>
  /\ UNCHANGED <<json, run, i, batches, tasks, store, dbOpen, poolInUse>>

\* The unit of work batch.map starts for an address: db.transaction opens a
\* transaction on a connection of its own.
StartedTask(t) ==
  [st |-> "open", pos |-> "findUser", wi |-> 0, dbUser |-> {},
   dbWorker |-> {}, pending |-> <<>>, attempts |-> t.attempts + 1]

\* A unit of work that committed or rolled back: its transaction is over and
\* nothing of it is buffered any more.
SettledTask(t, how) ==
  [st |-> how, pos |-> "none", wi |-> 0, dbUser |-> {}, dbWorker |-> {},
   pending |-> <<>>, attempts |-> t.attempts]

\* One iteration of the batch loop up to its await: slice the batch and
\* start the unit of work of every member.
BatchStart ==
  /\ pc = "loop"
  /\ i < Len(userEntries)
  /\ batches' = Append(batches, Batch)
  /\ tasks' = [a \in Addresses |->
                 IF a \in Range(Batch) THEN StartedTask(tasks[a]) ELSE tasks[a]]
  /\ poolInUse' = poolInUse + Len(Batch)
  /\ pc' = "await"
  /\ UNCHANGED <<seedVars, getDbVars, other>>
  /\ UNCHANGED <<json, run, i, store, dbOpen, error, reported, outcomes>>

\* A batch whose members are started and not awaited.
BatchNotAwaited == TRUE

\* A Promise.all that never fulfils.
BatchNeverSettled == FALSE

\* Promise.all fulfils once every member of the batch has fulfilled.
BatchSettled ==
  \A a \in Range(batches[Len(batches)]) : tasks[a].st = "committed"

\* A loop step that is one too long.
SkippingIndex(k) == k + BATCH_SIZE + 1

\* i += BATCH_SIZE
NextIndex(k) == k + BATCH_SIZE

BatchFulfilled ==
  /\ pc = "await"
  /\ BatchSettled
  /\ i' = NextIndex(i)
  /\ pc' = "loop"
  /\ UNCHANGED <<seedVars, getDbVars, other>>
  /\ UNCHANGED <<json, run, batches, tasks, store, dbOpen, poolInUse,
                 error, reported, outcomes>>

\* The loop condition fails: the try block ends and finally runs db.destroy().
LoopExit ==
  /\ pc = "loop"
  /\ i >= Len(userEntries)
  /\ pc' = "destroy"
  /\ UNCHANGED <<seedVars, getDbVars, other>>
  /\ UNCHANGED <<json, run, i, batches, tasks, store, dbOpen, poolInUse,
                 error, reported, outcomes>>

\* userRepository.findOne({ where: { address } })
FindUser(a) ==
  /\ tasks[a].st = "open" /\ tasks[a].pos = "findUser"
  /\ \E found \in FindOne({u \in store.users : u.address = a}) :
       tasks' = [tasks EXCEPT ![a].dbUser = found, ![a].pos = "saveUser"]
  /\ UNCHANGED <<seedVars, getDbVars, other>>
  /\ UNCHANGED <<json, run, pc, i, batches, store, dbOpen, poolInUse,
                 error, reported, outcomes>>

\* An upsert that leaves isActive of a found row as it is.
UserWriteKeepsFlag(a, found) ==
  IF found = {}
  THEN [tbl |-> "User", op |-> "insert",
        row |-> [address |-> a, isActive |-> TRUE,
                 created |-> run, updated |-> run]]
  ELSE [tbl |-> "User", op |-> "update",
        row |-> [(CHOOSE u \in found : TRUE) EXCEPT !.updated = run]]

\* The entity the user upsert saves: a new row when none was found, else the
\* found row with isActive set again.
UserWrite(a, found) ==
  IF found = {}
  THEN [tbl |-> "User", op |-> "insert",
        row |-> [address |-> a, isActive |-> TRUE,
                 created |-> run, updated |-> run]]
  ELSE [tbl |-> "User", op |-> "update",
        row |-> [(CHOOSE u \in found : TRUE) EXCEPT
                   !.isActive = TRUE, !.updated = run]]

\* userRepository.save(dbUser)
SaveUser(a) ==
  /\ tasks[a].st = "open" /\ tasks[a].pos = "saveUser"
  /\ LET w == UserWrite(a, tasks[a].dbUser)
     IN  /\ store' = StoreAfterSave(a, w)
         /\ tasks' = [tasks EXCEPT ![a].pending = PendingAfterSave(a, w),
                                   ![a].pos = "saveUserStats"]
  /\ UNCHANGED <<seedVars, getDbVars, other>>
  /\ UNCHANGED <<json, run, pc, i, batches, dbOpen, poolInUse,
                 error, reported, outcomes>>

\* w.lastshare || 0
LastshareOrZero(v) == IF v = {} THEN 0 ELSE CHOOSE n \in v : TRUE

\* A number as a column value, and String(-Infinity).
Number(n) == [t |-> "number", n |-> n]
NegInfinity == [t |-> "-Infinity", n |-> 0]

\* Math.max(...values): -Infinity when called without arguments.
MathMax(s) ==
  IF s = {} THEN NegInfinity
  ELSE Number(CHOOSE m \in s : \A n \in s : n <= m)

\* workerCount: Object.keys(user.workers || {}).length
WorkerCount(a) == Len(WorkerEntries(a))

\* lastShare: String(user.workers ? Math.max(...Object.values(user.workers)
\*   .map(w => w.lastshare || 0)) : 0)
LastShare(a) ==
  IF P2PoolUser(a).hasWorkers
  THEN MathMax({LastshareOrZero(WorkerLastshare(a, P2PoolUser(a).workers[k])) :
                  k \in 1..Len(P2PoolUser(a).workers)})
  ELSE Number(0)

UserStatsWrite(a) ==
  [tbl |-> "UserStats", op |-> "insert",
   row |-> [userAddress |-> a, run |-> run,
            workerCount |-> WorkerCount(a), lastShare |-> LastShare(a),
            seq |-> NextSeq({r \in store.userStats :
                               r.userAddress = a /\ r.run = run})]]

\* userStatsRepository.save(userStats), then the worker loop is entered.
SaveUserStats(a) ==
  /\ tasks[a].st = "open" /\ tasks[a].pos = "saveUserStats"
  /\ LET w == UserStatsWrite(a)
     IN  /\ store' = StoreAfterSave(a, w)
         /\ tasks' = [tasks EXCEPT
              ![a].pending = PendingAfterSave(a, w),
              ![a].wi = 1,
              ![a].pos = IF WorkerEntries(a) = <<>> THEN "commit"
                         ELSE "findWorker"]
  /\ UNCHANGED <<seedVars, getDbVars, other>>
  /\ UNCHANGED <<json, run, pc, i, batches, dbOpen, poolInUse,
                 error, reported, outcomes>>

\* workerRepository.findOne({ where: { userAddress: address, name } })
FindWorker(a) ==
  /\ tasks[a].st = "open" /\ tasks[a].pos = "findWorker"
  /\ \E found \in FindOne({x \in store.workers :
                             /\ x.userAddress = a
                             /\ x.name = WorkerEntries(a)[tasks[a].wi]}) :
       tasks' = [tasks EXCEPT ![a].dbWorker = found, ![a].pos = "saveWorker"]
  /\ UNCHANGED <<seedVars, getDbVars, other>>
  /\ UNCHANGED <<json, run, pc, i, batches, store, dbOpen, poolInUse,
                 error, reported, outcomes>>

\* The id the store gives a Worker row on insert: fresh for every insert.
NewWorkerId(a, name) == <<a, name, run>>

WorkerWrite(a, name, found) ==
  IF found = {}
  THEN [tbl |-> "Worker", op |-> "insert",
        row |-> [id |-> NewWorkerId(a, name), userAddress |-> a,
                 name |-> name, created |-> run, updated |-> run]]
  ELSE [tbl |-> "Worker", op |-> "update",
        row |-> [(CHOOSE x \in found : TRUE) EXCEPT !.updated = run]]

\* savedWorker = workerRepository.save(dbWorker)
SaveWorker(a) ==
  /\ tasks[a].st = "open" /\ tasks[a].pos = "saveWorker"
  /\ LET w == WorkerWrite(a, WorkerEntries(a)[tasks[a].wi], tasks[a].dbWorker)
     IN  /\ store' = StoreAfterSave(a, w)
         /\ tasks' = [tasks EXCEPT ![a].pending = PendingAfterSave(a, w),
                                   ![a].dbWorker = {w.row},
                                   ![a].pos = "saveWorkerStats"]
  /\ UNCHANGED <<seedVars, getDbVars, other>>
  /\ UNCHANGED <<json, run, pc, i, batches, dbOpen, poolInUse,
                 error, reported, outcomes>>

\* workerId: savedWorker.id
StatsWorkerId(savedWorker) == savedWorker.id

WorkerStatsWrite(a, savedWorker) ==
  [tbl |-> "WorkerStats", op |-> "insert",
   row |-> [workerId |-> StatsWorkerId(savedWorker), run |-> run, by |-> a,
            seq |-> NextSeq({r \in store.workerStats :
                               /\ r.workerId = StatsWorkerId(savedWorker)
                               /\ r.run = run})]]

\* workerStatsRepository.save(workerStats), then the next worker or the commit.
SaveWorkerStats(a) ==
  /\ tasks[a].st = "open" /\ tasks[a].pos = "saveWorkerStats"
  /\ LET w == WorkerStatsWrite(a, CHOOSE x \in tasks[a].dbWorker : TRUE)
         last == tasks[a].wi >= Len(WorkerEntries(a))
     IN  /\ store' = StoreAfterSave(a, w)
         /\ tasks' = [tasks EXCEPT
              ![a].pending = PendingAfterSave(a, w),
              ![a].dbWorker = {},
              ![a].wi = IF last THEN @ ELSE @ + 1,
              ![a].pos = IF last THEN "commit" ELSE "findWorker"]
  /\ UNCHANGED <<seedVars, getDbVars, other>>
  /\ UNCHANGED <<json, run, pc, i, batches, dbOpen, poolInUse,
                 error, reported, outcomes>>

\* The callback of db.transaction returned: the buffered writes are committed
\* together and the connection goes back to the pool.
Commit(a) ==
  /\ tasks[a].st = "open" /\ tasks[a].pos = "commit"
  /\ store' = ApplyAll(store, tasks[a].pending)
  /\ tasks' = [tasks EXCEPT ![a] = SettledTask(tasks[a], "committed")]
  /\ poolInUse' = poolInUse - 1
  /\ UNCHANGED <<seedVars, getDbVars, other>>
  /\ UNCHANGED <<json, run, pc, i, batches, dbOpen, error, reported, outcomes>>

\* A rollback that undoes everything the invocation has committed so far.
RollbackInvocation(s, a) ==
  [users       |-> {u \in s.users : u.updated # run},
   userStats   |-> {r \in s.userStats : r.run # run},
   workers     |-> {x \in s.workers : x.updated # run},
   workerStats |-> {r \in s.workerStats : r.run # run}]

\* What a rollback leaves of the committed rows: all of them.
Rollback(s, a) == s

\* A storage call of the unit of work fails (constraint violation, timeout,
\* lost connection), at whatever position it is: db.transaction rolls back,
\* releases the connection and rethrows.  The first rejection of a member
\* rejects Promise.all at once, which leaves the try block: finally calls
\* db.destroy() while the other members are where they are.
TaskFail(a) ==
  /\ tasks[a].st = "open"
  /\ store' = Rollback(store, a)
  /\ tasks' = [tasks EXCEPT ![a] = SettledTask(tasks[a], "failed")]
  /\ poolInUse' = poolInUse - 1
  /\ IF InBatch(a)
     THEN /\ pc' = "destroy"
          /\ error' = {[kind |-> "address", address |-> a,
                        at |-> tasks[a].pos]}
     ELSE UNCHANGED <<pc, error>>
  /\ UNCHANGED <<seedVars, getDbVars, other>>
  /\ UNCHANGED <<json, run, i, batches, dbOpen, reported, outcomes>>

\* await db.destroy() returns; the invocation settles, and a rejection goes to
\* updateUsersFromJson().catch(console.error).
DestroyDone ==
  /\ pc = "destroy"
  /\ dbOpen' = FALSE
  /\ pc' = "done"
  /\ reported' = error
  /\ outcomes' = Append(outcomes, IF error = {} THEN "fulfilled" ELSE "rejected")
  /\ UNCHANGED <<seedVars, getDbVars, other>>
  /\ UNCHANGED <<json, run, i, batches, tasks, store, poolInUse, error>>

\* The periodic trigger invokes the script again on the same snapshot, after
\* the previous process has ended (nothing of it is in flight any more).
NextInvocation ==
  /\ pc = "done"
  /\ run < MaxRuns
  /\ \A a \in Addresses : tasks[a].st # "open"
  /\ run' = run + 1
  /\ pc' = "read"
  /\ i' = 0
  /\ batches' = <<>>
  /\ tasks' = [a \in Addresses |-> IdleTask]
  /\ error' = {}
  /\ reported' = {}
  /\ UNCHANGED <<seedVars, getDbVars, other>>
  /\ UNCHANGED <<json, store, dbOpen, poolInUse, outcomes>>

Next ==
  \/ ReadSnapshot
  \/ ReadFails
  \/ GetDb
  \/ GetDbFails
  \/ BatchStart
  \/ BatchFulfilled
  \/ LoopExit
  \/ DestroyDone
  \/ NextInvocation
  \/ \E a \in Addresses :
       \/ FindUser(a)
       \/ SaveUser(a)
       \/ SaveUserStats(a)
       \/ FindWorker(a)
       \/ SaveWorker(a)
       \/ SaveWorkerStats(a)
       \/ Commit(a)
       \/ TaskFail(a)

Spec == Init /\ [][Next]_vars

\* One invocation of the batched variant on a store in which some addresses
\* have a User row already, marked inactive by the retention job (a separate
\* program) since the invocation that created it.
InitRetention ==
  /\ json \in Snapshots
  /\ run = 1
  /\ pc = "read"
  /\ i = 0
  /\ batches = <<>>
  /\ tasks = [a \in Addresses |-> IdleTask]
  /\ \E known \in SUBSET Addresses :
       store = [EmptyStore EXCEPT !.users =
                  {[address |-> a, isActive |-> FALSE,
                    created |-> 0, updated |-> 0] : a \in known}]
  /\ dbOpen = FALSE
  /\ poolInUse = 0
  /\ error = {}
  /\ reported = {}
  /\ outcomes = <<>>
  /\ script = "updateUsersFromLogs"
  /\ p2pool = [computed_hashrate |-> {}, users |-> <<>>]
  /\ poolStats = {}
  /\ topUsers = <<>>
  /\ dbLog = <<>>
  /\ connectionPromise = 0
  /\ initializations = <<>>
  /\ callers = <<>>
  /\ other = IdleTask

NextRetention ==
  \/ ReadSnapshot
  \/ ReadFails
  \/ GetDb
  \/ GetDbFails
  \/ BatchStart
  \/ BatchFulfilled
  \/ LoopExit
  \/ DestroyDone
  \/ \E a \in Addresses :
       \/ FindUser(a)
       \/ SaveUser(a)
       \/ SaveUserStats(a)
       \/ FindWorker(a)
       \/ SaveWorker(a)
       \/ SaveWorkerStats(a)
       \/ Commit(a)
       \/ TaskFail(a)

SpecRetention == InitRetention /\ [][NextRetention]_vars

\* --------------------------------------- the sequential, untransacted variant
\* Object.entries(json.users || {}) of the untransacted variant.
usersArray == json

\* The address the for-of loop is at (i counts the users already finished).
CurrentUser == usersArray[i + 1]

\* Everything of this variant runs inside one try block whose catch logs the
\* error; the invocation always fulfils.
U_ReadSnapshot ==
  /\ pc = "read"
  /\ pc' = "getDb"
  /\ UNCHANGED <<seedVars, getDbVars, other>>
  /\ UNCHANGED <<json, run, i, batches, tasks, store, dbOpen, poolInUse,
                 error, reported, outcomes>>

\* readFileSync or JSON.parse throws: caught and logged; db is still undefined,
\* so finally destroys nothing.
U_ReadFails ==
  /\ pc = "read"
  /\ pc' = "done"
  /\ error' = {[kind |-> "fatal", address |-> 0, at |-> "read"]}
  /\ reported' = error'
  /\ outcomes' = Append(outcomes, "fulfilled")
  /\ UNCHANGED <<seedVars, getDbVars, other>>
  /\ UNCHANGED <<json, run, i, batches, tasks, store, dbOpen, poolInUse>>

U_GetDb ==
  /\ pc = "getDb"
  /\ dbOpen' = TRUE
  /\ pc' = "loop"
  /\ UNCHANGED <<seedVars, getDbVars, other>>
  /\ UNCHANGED <<json, run, i, batches, tasks, store, poolInUse,
                 error, reported, outcomes>>

U_GetDbFails ==
  /\ pc = "getDb"
  /\ pc' = "done"
  /\ error' = {[kind |-> "fatal", address |-> 0, at |-> "getDb"]}
  /\ reported' = error'
  /\ outcomes' = Append(outcomes, "fulfilled")
  /\ UNCHANGED <<seedVars, getDbVars, other>>
  /\ UNCHANGED <<json, run, i, batches, tasks, store, dbOpen, poolInUse>>

\* The loop takes the next user and builds its entity: userRepo.create({address}).
U_StartUser ==
  /\ pc = "loop"
  /\ i < Len(usersArray)
  /\ tasks' = [tasks EXCEPT ![CurrentUser] =
                 [StartedTask(@) EXCEPT !.pos = "saveUser"]]
  /\ pc' = "user"
  /\ UNCHANGED <<seedVars, getDbVars, other>>
  /\ UNCHANGED <<json, run, i, batches, store, dbOpen, poolInUse,
                 error, reported, outcomes>>

\* The entity userRepo.create({ address }) saves: only the key is given, so
\* an insert leaves isActive to the column's default and an existing row keeps
\* its columns.
U_UserWrite(a, found, default) ==
  IF found = {}
  THEN [tbl |-> "User", op |-> "insert",
        row |-> [address |-> a, isActive |-> default,
                 created |-> run, updated |-> run]]
  ELSE [tbl |-> "User", op |-> "update",
        row |-> [(CHOOSE u \in found : TRUE) EXCEPT !.updated = run]]

\* userRepo.save(userEntity): save looks the key up and inserts or updates;
\* the write is committed on its own.
U_SaveUser ==
  /\ pc = "user"
  /\ LET a == CurrentUser
     IN  /\ tasks[a].st = "open" /\ tasks[a].pos = "saveUser"
         /\ \E found \in FindOne({u \in store.users : u.address = a}),
               default \in BOOLEAN :
              store' = ApplyWrite(store, U_UserWrite(a, found, default))
         /\ tasks' = [tasks EXCEPT ![a].pos = "saveUserStats"]
  /\ UNCHANGED <<seedVars, getDbVars, other>>
  /\ UNCHANGED <<json, run, pc, i, batches, dbOpen, poolInUse,
                 error, reported, outcomes>>

\* The user is finished (console.log 'Updated user and workers for').
U_FinishedTasks(a) ==
  [tasks EXCEPT ![a] = SettledTask(@, "committed")]

\* userStatsRepo.create of the untransacted variant: the hashrates and the
\* timestamp, no workerCount and no lastShare.
U_UserStatsWrite(a) ==
  [tbl |-> "UserStats", op |-> "insert",
   row |-> [userAddress |-> a, run |-> run,
            seq |-> NextSeq({r \in store.userStats :
                               r.userAddress = a /\ r.run = run})]]

\* userStatsRepo.save(userStatsEntity), committed on its own.
U_SaveUserStats ==
  /\ pc = "user"
  /\ LET a == CurrentUser
         none == WorkerEntries(a) = <<>>
     IN  /\ tasks[a].st = "open" /\ tasks[a].pos = "saveUserStats"
         /\ store' = ApplyWrite(store, U_UserStatsWrite(a))
         /\ tasks' = IF none THEN U_FinishedTasks(a)
                     ELSE [tasks EXCEPT ![a].wi = 1, ![a].pos = "saveWorker"]
         /\ i' = IF none THEN i + 1 ELSE i
         /\ pc' = IF none THEN "loop" ELSE pc
  /\ UNCHANGED <<seedVars, getDbVars, other>>
  /\ UNCHANGED <<json, run, batches, dbOpen, poolInUse,
                 error, reported, outcomes>>

\* workerRepo.save of a newly created entity without id: always an insert,
\* after which workerEntity.id is set.
U_SaveWorker ==
  /\ pc = "user"
  /\ LET a == CurrentUser
     IN  /\ tasks[a].st = "open" /\ tasks[a].pos = "saveWorker"
         /\ LET w == WorkerWrite(a, WorkerEntries(a)[tasks[a].wi], {})
            IN  /\ store' = ApplyWrite(store, w)
                /\ tasks' = [tasks EXCEPT ![a].dbWorker = {w.row},
                                          ![a].pos = "saveWorkerStats"]
  /\ UNCHANGED <<seedVars, getDbVars, other>>
  /\ UNCHANGED <<json, run, pc, i, batches, dbOpen, poolInUse,
                 error, reported, outcomes>>

\* workerStatsRepo.save with workerId: workerEntity.id, committed on its own.
U_SaveWorkerStats ==
  /\ pc = "user"
  /\ LET a == CurrentUser
     IN  /\ tasks[a].st = "open" /\ tasks[a].pos = "saveWorkerStats"
         /\ LET w == WorkerStatsWrite(a, CHOOSE x \in tasks[a].dbWorker : TRUE)
                last == tasks[a].wi >= Len(WorkerEntries(a))
            IN  /\ store' = ApplyWrite(store, w)
                /\ tasks' = IF last THEN U_FinishedTasks(a)
                            ELSE [tasks EXCEPT ![a].dbWorker = {},
                                               ![a].wi = @ + 1,
                                               ![a].pos = "saveWorker"]
                /\ i' = IF last THEN i + 1 ELSE i
                /\ pc' = IF last THEN "loop" ELSE pc
  /\ UNCHANGED <<seedVars, getDbVars, other>>
  /\ UNCHANGED <<json, run, batches, dbOpen, poolInUse,
                 error, reported, outcomes>>

\* A save throws: the catch block logs the error and finally destroys the
\* datasource.  What the earlier saves committed stays.
U_SaveFails ==
  /\ pc = "user"
  /\ LET a == CurrentUser
     IN  /\ tasks[a].st = "open"
         /\ tasks' = [tasks EXCEPT ![a] = SettledTask(@, "failed")]
         /\ error' = {[kind |-> "address", address |-> a, at |-> tasks[a].pos]}
  /\ pc' = "destroy"
  /\ UNCHANGED <<seedVars, getDbVars, other>>
  /\ UNCHANGED <<json, run, i, batches, store, dbOpen, poolInUse,
                 reported, outcomes>>

U_LoopExit ==
  /\ pc = "loop"
  /\ i >= Len(usersArray)
  /\ pc' = "destroy"
  /\ UNCHANGED <<seedVars, getDbVars, other>>
  /\ UNCHANGED <<json, run, i, batches, tasks, store, dbOpen, poolInUse,
                 error, reported, outcomes>>

\* finally: if (db) await db.destroy(); the caught error was logged.
U_DestroyDone ==
  /\ pc = "destroy"
  /\ dbOpen' = FALSE
  /\ pc' = "done"
  /\ reported' = error
  /\ outcomes' = Append(outcomes, "fulfilled")
  /\ UNCHANGED <<seedVars, getDbVars, other>>
  /\ UNCHANGED <<json, run, i, batches, tasks, store, poolInUse, error>>

NextUntransacted ==
  \/ U_ReadSnapshot
  \/ U_ReadFails
  \/ U_GetDb
  \/ U_GetDbFails
  \/ U_StartUser
  \/ U_SaveUser
  \/ U_SaveUserStats
  \/ U_SaveWorker
  \/ U_SaveWorkerStats
  \/ U_SaveFails
  \/ U_LoopExit
  \/ U_DestroyDone
  \/ NextInvocation

SpecUntransacted == Init /\ [][NextUntransacted]_vars

\* ---------------------------------------------------- hashrate normalisation
\* The scaling factor.  The source sets Math.pow(2, 32); the model keeps the
\* name and scales the value down so that the products stay machine integers.
HASHRATE_FACTOR == 16

\* The values a field read from the snapshot may hold.  A number is the
\* fraction n / d with d > 0; a numeral is a string that spells that number.
Undefined == [t |-> "undefined", n |-> 0, d |-> 1]

Null == [t |-> "null", n |-> 0, d |-> 1]

NaN == [t |-> "NaN", n |-> 0, d |-> 1]

\* What JSON.parse makes of a number beyond the range of a double.
Infinity == [t |-> "Infinity", n |-> 0, d |-> 1]

\* A string that spells no number.
Text == [t |-> "text", n |-> 0, d |-> 1]

Num(n, d) == [t |-> "number", n |-> n, d |-> d]

Numeral(n, d) == [t |-> "numeral", n |-> n, d |-> d]

\* value || 0: undefined, null, NaN and 0 are falsy.
OrZero(v) ==
  IF v.t \in {"undefined", "null", "NaN"} \/ (v.t = "number" /\ v.n = 0)
  THEN Num(0, 1) ELSE v

\* value ?? 0: only undefined and null are replaced.
Nullish(v) == IF v.t \in {"undefined", "null"} THEN Num(0, 1) ELSE v

\* Number(value)
ToNumber(v) ==
  CASE v.t = "number"   -> v
    [] v.t = "numeral"  -> Num(v.n, v.d)
    [] v.t = "Infinity" -> v
    [] v.t = "null"     -> Num(0, 1)
    [] OTHER            -> NaN

\* A product that leaves its operand as it is.
TimesOne(v, k) == v

\* value * k
Times(v, k) ==
  CASE v.t = "number"   -> Num(v.n * k, v.d)
    [] v.t = "Infinity" -> v
    [] OTHER            -> NaN

\* Math.round: the nearest integer, a half going up.
MathRound(v) ==
  CASE v.t = "number"   -> Num((2 * v.n + v.d) \div (2 * v.d), 1)
    [] v.t = "Infinity" -> v
    [] OTHER            -> NaN

\* BigInt(value) throws unless the value is an integer or spells one.
BigIntThrows(v) == ~(v.t \in {"number", "numeral"} /\ v.n % v.d = 0)

BigIntValue(v) == v.n \div v.d

\* String(value) of a number, and bigint.toString().
StringOf(v) == Numeral(v.n, v.d)

\* Math.round(Number(value || 0) * HASHRATE_FACTOR)
Scaled(value) == MathRound(Times(ToNumber(OrZero(value)), HASHRATE_FACTOR))

\* scaleHashrate throws where its BigInt does.
scaleHashrateThrows(value) == BigIntThrows(Scaled(value))

\* scaleHashrate: BigInt(Math.round(Number(value || 0) * HASHRATE_FACTOR))
\* written as a string.
scaleHashrate(value) == StringOf(Num(BigIntValue(Scaled(value)), 1))

\* ----------------------------------------------- the snapshot the seed reads
\* The hashrate windows of a rollup.
Windows ==
  {"hashrate_1m", "hashrate_5m", "hashrate_15m", "hashrate_1hr",
   "hashrate_6hr", "hashrate_1d", "hashrate_7d"}

\* A computed_hash_rate object whose 1-day field holds x.  Of the other
\* fields one is missing, one is null, one is 0 and one scales to a half.
Rollup(x) ==
  [w \in Windows |->
     CASE w = "hashrate_1d"  -> x
       [] w = "hashrate_1m"  -> Num(1, 1)
       [] w = "hashrate_5m"  -> Num(3, 2 * HASHRATE_FACTOR)
       [] w = "hashrate_15m" -> Undefined
       [] w = "hashrate_1hr" -> Null
       [] w = "hashrate_6hr" -> Num(0, 1)
       [] OTHER              -> Num(5, 2)]

\* A rollup is absent (the empty set) or present (a singleton).
WorkerWith(x) == [computed_hash_rate |-> {Rollup(x)}]

WorkerWithout == [computed_hash_rate |-> {}]

\* The user records of the model: without rollup and workers; without
\* rollup, with a first or only a second worker that has one; with a rollup
\* of an integral or a fractional 1-day hashrate.
UserRecords ==
  {[computed_hash_rate |-> {}, hasWorkers |-> FALSE, workers |-> <<>>],
   [computed_hash_rate |-> {}, hasWorkers |-> TRUE,
    workers |-> <<WorkerWith(Num(2, 1))>>],
   [computed_hash_rate |-> {}, hasWorkers |-> TRUE,
    workers |-> <<WorkerWithout, WorkerWith(Num(2, 1))>>],
   [computed_hash_rate |-> {Rollup(Num(1, 1))}, hasWorkers |-> TRUE,
    workers |-> <<WorkerWith(Num(3, 1))>>],
   [computed_hash_rate |-> {Rollup(Num(3, 1))}, hasWorkers |-> TRUE,
    workers |-> <<>>],
   [computed_hash_rate |-> {Rollup(Num(5, 2))}, hasWorkers |-> TRUE,
    workers |-> <<WorkerWithout>>]}

\* The top-level rollup of the document: absent, sound, or with a field
\* that is negative, not finite, or not a number.
TopRollups ==
  {{}, {Rollup(Num(4, 1))}, {Rollup(Num(-3, 2))}, {Rollup(Infinity)},
   {Rollup(Text)}}

\* The documents of the model; the user at position k has address k.
Documents ==
  [computed_hashrate : TopRollups,
   users : UNION {[1..n -> UserRecords] : n \in 0..MaxUsers}]

\* ------------------------------------------------------------ p2poolToCkpool
\* Object.values(p2pool.users || {})
usersList(p) == p.users

\* Object.values(user.workers || {})
WorkersList(user) == IF user.hasWorkers THEN user.workers ELSE <<>>

\* A resolution that falls back to the last user instead of the first.
hashrateFieldsOfLastUser(p) ==
  LET users == usersList(p)
  IN  IF p.computed_hashrate # {} \/ Len(users) = 0
      THEN p.computed_hashrate
      ELSE users[Len(users)].computed_hash_rate

\* The rollup p2poolToCkpool scales: the document's own, else the first
\* user's, else that of the first user's first worker, else none ({}).
hashrateFields(p) ==
  LET users == usersList(p)
      afterUser ==
        IF p.computed_hashrate = {} /\ Len(users) > 0
        THEN users[1].computed_hash_rate
        ELSE p.computed_hashrate
      workers == WorkersList(users[1])
  IN  IF /\ afterUser = {}
         /\ Len(users) > 0
         /\ Len(workers) > 0
         /\ workers[1].computed_hash_rate # {}
      THEN workers[1].computed_hash_rate
      ELSE afterUser

\* hashrateFields.hashrate_X: undefined when the object lacks the field.
Field(fields, w) ==
  IF fields = {} THEN Undefined ELSE (CHOOSE r \in fields : TRUE)[w]

p2poolToCkpoolThrows(p) ==
  \E w \in Windows : scaleHashrateThrows(Field(hashrateFields(p), w))

\* The hashrate fields of the object p2poolToCkpool returns.
p2poolToCkpool(p) ==
  [w \in Windows |-> scaleHashrate(Field(hashrateFields(p), w))]

\* The oldest version reads the windows at the top level of the document,
\* where the snapshot has none, and does not scale:
\* String(p2pool.hashrate_X ?? 0).
p2poolToCkpoolUnscaled(p) ==
  [w \in Windows |-> StringOf(Nullish(Undefined))]

\* The stats object the running script builds.
Stats(p) ==
  IF script = "part_000" THEN p2poolToCkpoolUnscaled(p) ELSE p2poolToCkpool(p)

StatsThrows(p) == script # "part_000" /\ p2poolToCkpoolThrows(p)

\* poolRepo.create({...stats, hashrateX: BigInt(stats.hashrateX)})
PoolStatsRow(stats) ==
  [run |-> run, hashrate |-> [w \in Windows |-> BigIntValue(stats[w])]]

\* ---------------------------------------------------------------- top users
\* The number of ranked users the seed records.  The source slices at 10;
\* the model scales the number down below MaxUsers.
TOP_USERS == 2

\* Object.entries(p2pool.users || {}).map(...): the hashrate of an entry is
\* user.computed_hash_rate?.hashrate_1d ?? 0.
RankEntries(p) ==
  [k \in 1..Len(p.users) |->
     [address |-> k,
      hashrate |-> Nullish(Field(p.users[k].computed_hash_rate,
                                 "hashrate_1d"))]]

\* A comparator that ranks the lowest hashrate first.
CompareAscending(a, b) ==
  a.hashrate.n * b.hashrate.d - b.hashrate.n * a.hashrate.d

\* (a, b) => b.hashrate - a.hashrate, as the sign of the difference of the
\* two numbers.
Compare(a, b) ==
  b.hashrate.n * a.hashrate.d - a.hashrate.n * b.hashrate.d

\* Array.prototype.sort is stable: an entry goes behind every entry that the
\* comparator does not put after it.
RECURSIVE InsertStable(_, _)
InsertStable(sorted, x) ==
  IF sorted = <<>> THEN <<x>>
  ELSE IF Compare(Head(sorted), x) <= 0
       THEN <<Head(sorted)>> \o InsertStable(Tail(sorted), x)
       ELSE <<x>> \o sorted

RECURSIVE Sort(_)
Sort(s) ==
  IF s = <<>> THEN <<>>
  ELSE InsertStable(Sort(SubSeq(s, 1, Len(s) - 1)), s[Len(s)])

\* usersArray.map(...).sort(...).slice(0, 10)
RankTopUsers(p) == Slice(Sort(RankEntries(p)), 0, TOP_USERS)

\* ----------------------------------------------------------- the seed script
\* What no step of the seed script changes.
seedIdle == <<json, run, batches, tasks, poolInUse, script, p2pool>>

\* A PoolStats row that an earlier invocation left in the store.
EarlierPoolStats == [run |-> 0, hashrate |-> [w \in Windows |-> 0]]

InitSeed ==
  /\ script \in {"seed", "part_001", "part_000"}
  /\ p2pool \in Documents
  /\ json = Ascending(Len(p2pool.users))
  /\ run = 1
  /\ pc = "read"
  /\ i = 0
  /\ batches = <<>>
  /\ tasks = [a \in Addresses |-> IdleTask]
  /\ store = EmptyStore
  /\ dbOpen = FALSE
  /\ poolInUse = 0
  /\ error = {}
  /\ reported = {}
  /\ outcomes = <<>>
  /\ poolStats = {EarlierPoolStats}
  /\ topUsers = <<>>
  /\ dbLog = <<>>
  /\ connectionPromise = 0
  /\ initializations = <<>>
  /\ callers = <<>>
  /\ other = IdleTask

\* readP2PoolJson and p2poolToCkpool return.
S_ReadJson ==
  /\ pc = "read"
  /\ ~StatsThrows(p2pool)
  /\ pc' = "getDb"
  /\ UNCHANGED <<seedIdle, getDbVars, other>>
  /\ UNCHANGED <<i, store, dbOpen, error, reported, outcomes, poolStats,
                 topUsers, dbLog>>

\* The file is missing or unreadable, or JSON.parse throws: the catch block
\* of seed logs the error.
S_ReadFails ==
  /\ pc = "read"
  /\ pc' = "finally"
  /\ error' = {[kind |-> "fatal", address |-> 0, at |-> "read"]}
  /\ dbLog' = Append(dbLog, "readError")
  /\ UNCHANGED <<seedIdle, getDbVars, other>>
  /\ UNCHANGED <<i, store, dbOpen, reported, outcomes, poolStats, topUsers>>

\* scaleHashrate throws inside p2poolToCkpool: caught like any other error.
S_NormalizeFails ==
  /\ pc = "read"
  /\ StatsThrows(p2pool)
  /\ pc' = "finally"
  /\ error' = {[kind |-> "normalize", address |-> 0, at |-> "read"]}
  /\ dbLog' = Append(dbLog, "normalizeError")
  /\ UNCHANGED <<seedIdle, getDbVars, other>>
  /\ UNCHANGED <<i, store, dbOpen, reported, outcomes, poolStats, topUsers>>

\* db = await getDb() resolves: the datasource is initialized.
S_GetDb ==
  /\ pc = "getDb"
  /\ dbOpen' = TRUE
  /\ dbLog' = Append(dbLog, "initialize")
  /\ pc' = "savePool"
  /\ UNCHANGED <<seedIdle, getDbVars, other>>
  /\ UNCHANGED <<i, store, error, reported, outcomes, poolStats, topUsers>>

\* await getDb() rejects: the storage backend cannot be reached.
S_GetDbFails ==
  /\ pc = "getDb"
  /\ pc' = "finally"
  /\ error' = {[kind |-> "fatal", address |-> 0, at |-> "getDb"]}
  /\ dbLog' = Append(dbLog, "initializeError")
  /\ UNCHANGED <<seedIdle, getDbVars, other>>
  /\ UNCHANGED <<i, store, dbOpen, reported, outcomes, poolStats, topUsers>>

\* poolRepo.save(poolStats) through the datasource's repository: committed on
\* its own.  The seed with top users then ranks the users; the older
\* versions are through.
S_SavePool ==
  /\ pc = "savePool"
  /\ poolStats' = poolStats \cup {PoolStatsRow(Stats(p2pool))}
  /\ dbLog' = Append(dbLog, "save")
  /\ IF script = "seed"
     THEN /\ topUsers' = RankTopUsers(p2pool)
          /\ pc' = "user"
     ELSE /\ topUsers' = topUsers
          /\ pc' = "finally"
  /\ UNCHANGED <<seedIdle, getDbVars, other>>
  /\ UNCHANGED <<i, store, dbOpen, error, reported, outcomes>>

S_SavePoolFails ==
  /\ pc = "savePool"
  /\ pc' = "finally"
  /\ error' = {[kind |-> "storage", address |-> 0, at |-> "savePool"]}
  /\ dbLog' = Append(dbLog, "saveError")
  /\ UNCHANGED <<seedIdle, getDbVars, other>>
  /\ UNCHANGED <<i, store, dbOpen, reported, outcomes, poolStats, topUsers>>

\* The entry the for-of loop over topUsers is at (i counts the finished ones).
CurrentTop == topUsers[i + 1]

\* userRepo.save(userRepo.create({ address: u.address }))
S_SaveTopUser ==
  /\ pc = "user"
  /\ i < Len(topUsers)
  /\ \E found \in FindOne({u \in store.users : u.address = CurrentTop.address}),
        default \in BOOLEAN :
       store' = ApplyWrite(store,
                           U_UserWrite(CurrentTop.address, found, default))
  /\ dbLog' = Append(dbLog, "save")
  /\ pc' = "userStats"
  /\ UNCHANGED <<seedIdle, getDbVars, other>>
  /\ UNCHANGED <<i, dbOpen, error, reported, outcomes, poolStats, topUsers>>

\* userStatsRepo.create({ userAddress, hashrate1d: BigInt(u.hashrate),
\* timestamp }): the ranking metric, converted and not scaled.
TopUserStatsWrite(u) ==
  [tbl |-> "UserStats", op |-> "insert",
   row |-> [userAddress |-> u.address, run |-> run,
            seq |-> NextSeq({r \in store.userStats :
                               r.userAddress = u.address /\ r.run = run}),
            hashrate1d |-> BigIntValue(u.hashrate)]]

\* userStatsRepo.save(userStats), then the next entry.
S_SaveTopUserStats ==
  /\ pc = "userStats"
  /\ ~BigIntThrows(CurrentTop.hashrate)
  /\ store' = ApplyWrite(store, TopUserStatsWrite(CurrentTop))
  /\ dbLog' = Append(dbLog, "save")
  /\ i' = i + 1
  /\ pc' = "user"
  /\ UNCHANGED <<seedIdle, getDbVars, other>>
  /\ UNCHANGED <<dbOpen, error, reported, outcomes, poolStats, topUsers>>

\* BigInt(u.hashrate) throws a RangeError: the hashrate is not an integer.
S_BigIntFails ==
  /\ pc = "userStats"
  /\ BigIntThrows(CurrentTop.hashrate)
  /\ pc' = "finally"
  /\ error' = {[kind |-> "address", address |-> CurrentTop.address,
                at |-> "BigInt"]}
  /\ dbLog' = Append(dbLog, "conversionError")
  /\ UNCHANGED <<seedIdle, getDbVars, other>>
  /\ UNCHANGED <<i, store, dbOpen, reported, outcomes, poolStats, topUsers>>

\* A failed write that takes the invocation's PoolStats row with it.
PoolStatsRolledBack(rows) == {r \in rows : r.run # run}

\* What a failed write of a user leaves of the PoolStats rows: all of them,
\* the row was saved outside any transaction.
PoolStatsAfterFailure(rows) == rows

\* A save of the loop throws: the catch block logs the error and the loop is
\* left.
S_SaveFails ==
  /\ \/ pc = "user" /\ i < Len(topUsers)
     \/ pc = "userStats"
  /\ pc' = "finally"
  /\ error' = {[kind |-> "address", address |-> CurrentTop.address,
                at |-> pc]}
  /\ poolStats' = PoolStatsAfterFailure(poolStats)
  /\ dbLog' = Append(dbLog, "saveError")
  /\ UNCHANGED <<seedIdle, getDbVars, other>>
  /\ UNCHANGED <<i, store, dbOpen, reported, outcomes, topUsers>>

S_LoopExit ==
  /\ pc = "user"
  /\ i >= Len(topUsers)
  /\ pc' = "finally"
  /\ UNCHANGED <<seedIdle, getDbVars, other>>
  /\ UNCHANGED <<i, store, dbOpen, error, reported, outcomes, poolStats,
                 topUsers, dbLog>>

\* The exit status of the process: seed() has caught the error, so the
\* top-level code goes on to its end.
ExitStatus == 0

\* finally: db.destroy() on the handle the invocation holds.  The oldest
\* version gets the handle from a second getDb(), which returns the
\* initialized datasource.
S_Destroy ==
  /\ pc = "finally"
  /\ dbOpen
  /\ dbOpen' = FALSE
  /\ dbLog' = Append(dbLog, "destroy")
  /\ pc' = "done"
  /\ reported' = error
  /\ outcomes' = Append(outcomes, ExitStatus)
  /\ UNCHANGED <<seedIdle, getDbVars, other>>
  /\ UNCHANGED <<i, store, error, poolStats, topUsers>>

\* finally: if (db) finds db undefined, nothing is destroyed.
S_NoHandle ==
  /\ pc = "finally"
  /\ ~dbOpen
  /\ script # "part_000"
  /\ pc' = "done"
  /\ reported' = error
  /\ outcomes' = Append(outcomes, ExitStatus)
  /\ UNCHANGED <<seedIdle, getDbVars, other>>
  /\ UNCHANGED <<i, store, dbOpen, error, poolStats, topUsers, dbLog>>

\* finally of the oldest version: const db = await getDb() with no
\* datasource initialized initializes one.
S_FinallyGetDb ==
  /\ pc = "finally"
  /\ ~dbOpen
  /\ script = "part_000"
  /\ dbOpen' = TRUE
  /\ dbLog' = Append(dbLog, "initialize")
  /\ UNCHANGED <<seedIdle, getDbVars, other>>
  /\ UNCHANGED <<pc, i, store, error, reported, outcomes, poolStats, topUsers>>

\* That getDb() rejects: seed() rejects, the top-level catch logs the error
\* and calls process.exit(1).
S_FinallyGetDbFails ==
  /\ pc = "finally"
  /\ ~dbOpen
  /\ script = "part_000"
  /\ pc' = "done"
  /\ dbLog' = Append(dbLog, "initializeError")
  /\ reported' = error \cup {[kind |-> "fatal", address |-> 0,
                              at |-> "finally"]}
  /\ outcomes' = Append(outcomes, 1)
  /\ UNCHANGED <<seedIdle, getDbVars, other>>
  /\ UNCHANGED <<i, store, dbOpen, error, poolStats, topUsers>>

NextSeed ==
  \/ S_ReadJson
  \/ S_ReadFails
  \/ S_NormalizeFails
  \/ S_GetDb
  \/ S_GetDbFails
  \/ S_SavePool
  \/ S_SavePoolFails
  \/ S_SaveTopUser
  \/ S_SaveTopUserStats
  \/ S_BigIntFails
  \/ S_SaveFails
  \/ S_LoopExit
  \/ S_Destroy
  \/ S_NoHandle
  \/ S_FinallyGetDb
  \/ S_FinallyGetDbFails

SpecSeed == InitSeed /\ [][NextSeed]_vars

\* ------------------------------------------------------------------ claims
\* The rows of address a that the unit of work of invocation r wrote and that
\* are visible in the store.
RunRows(s, a, r) ==
  [users       |-> {u \in s.users : u.address = a /\ u.updated = r},
   userStats   |-> {x \in s.userStats : x.userAddress = a /\ x.run = r},
   workers     |-> {x \in s.workers : x.userAddress = a /\ x.updated = r},
   workerStats |-> {x \in s.workerStats : x.by = a /\ x.run = r}]

Count(rows) ==
  Cardinality(rows.users) + Cardinality(rows.userStats) +
  Cardinality(rows.workers) + Cardinality(rows.workerStats)

VisibleWrites(a) == Count(RunRows(store, a, run))

\* User upsert, user-stats insert, and an upsert and a stats insert per worker.
ExpectedWrites(a) == 2 + 2 * Len(WorkerEntries(a))

OpenTasks == {a \in Addresses : tasks[a].st = "open"}

FailedTasks == {a \in Addresses : tasks[a].st = "failed"}

\* C1: the writes of one address in an invocation are all-or-nothing: after
\* its unit of work failed, none of its writes of this invocation is visible
\* in the store; after it succeeded, all of them are, and they stay whatever
\* happens to the other addresses.
C1_PerAddressAtomicity ==
  \A a \in Addresses :
    /\ tasks[a].st = "failed" => VisibleWrites(a) = 0
    /\ tasks[a].st = "committed" => VisibleWrites(a) = ExpectedWrites(a)

\* C2: isolate-and-continue: when the invocation has ended and some address
\* failed, every address of the snapshot has nevertheless been started.
C2_IsolateAndContinue ==
  (pc = "done" /\ FailedTasks # {}) =>
    \A a \in Range(json) : tasks[a].st # "idle"

\* C3: db.destroy() is not called, and the invocation does not end, while a
\* unit of work of the batch is still in flight.
C3_SiblingsRunToCompletion ==
  pc \in {"destroy", "done"} => OpenTasks = {}

\* The addresses of batch k of this invocation.
BatchMembers(k) == Range(batches[k])

\* C4: batches run one after another: a unit of work is in flight only if it
\* belongs to the batch started last, every member of an earlier batch has
\* committed, and the connections in use are those of the open transactions,
\* at most BATCH_SIZE of them.
C4_BatchesSequential ==
  /\ \A a \in OpenTasks :
       batches # <<>> /\ a \in BatchMembers(Len(batches))
  /\ \A k \in 1..(Len(batches) - 1) :
       \A a \in BatchMembers(k) : tasks[a].st = "committed"
  /\ poolInUse = Cardinality(OpenTasks)
  /\ poolInUse <= BATCH_SIZE

\* C4 happens: a second batch is in flight after the first one committed.
C4_Witness ==
  /\ Len(batches) = 2
  /\ OpenTasks # {}
  /\ \A a \in BatchMembers(1) : tasks[a].st = "committed"

\* All rows of address a in store s.
RowsOf(s, a) ==
  [users       |-> {u \in s.users : u.address = a},
   userStats   |-> {x \in s.userStats : x.userAddress = a},
   workers     |-> {x \in s.workers : x.userAddress = a},
   workerStats |-> {x \in s.workerStats : x.by = a}]

\* C5: no global rollback: once the transaction of an address has committed,
\* no later step of the invocation (a failure of another address, the abort,
\* the destroy) changes the rows of that address.
C5_NoGlobalRollback ==
  [][\A a \in Addresses :
       (tasks[a].st = "committed" /\ run' = run) =>
         RowsOf(store', a) = RowsOf(store, a)]_vars

\* C5 happens: the first batch committed, a later batch failed and the
\* invocation ended, with the rows of the first batch in the store.
C5_Witness ==
  /\ pc = "done"
  /\ Len(batches) = 2
  /\ \E a \in BatchMembers(2) : tasks[a].st = "failed"
  /\ \A a \in BatchMembers(1) :
       tasks[a].st = "committed" /\ VisibleWrites(a) = ExpectedWrites(a)

\* C6: when the invocation and all of its units of work have ended, every
\* failed address is among the reported causes.
C6_EveryFailureReported ==
  (pc = "done" /\ OpenTasks = {}) =>
    \A a \in FailedTasks :
      \E e \in reported : e.kind = "address" /\ e.address = a

\* The WorkerStats rows invocation r inserted for the worker (a, name).
WorkerStatsOf(a, name, r) ==
  {x \in store.workerStats :
     /\ x.run = r
     /\ \E w \in store.workers :
          w.id = x.workerId /\ w.userAddress = a /\ w.name = name}

UserStatsOf(a, r) ==
  {x \in store.userStats : x.userAddress = a /\ x.run = r}

WorkerNames(a) == Range(WorkerEntries(a))

\* The invocations so far that ran to the end of the loop with every
\* transaction committed.
SucceededRuns ==
  {r \in 1..Len(outcomes) : outcomes[r] = "fulfilled"}

\* C7: an invocation starts the unit of work of an address at most once and
\* inserts at most one UserStats row per address and one WorkerStats row per
\* (address, worker name); an invocation in which every transaction
\* succeeded inserted exactly one of each for every address of the snapshot.
C7_SingleAttempt ==
  /\ \A a \in Addresses : tasks[a].attempts <= 1
  /\ \A a \in Addresses, r \in 1..run :
       /\ Cardinality(UserStatsOf(a, r)) <= 1
       /\ \A n \in WorkerNames(a) : Cardinality(WorkerStatsOf(a, n, r)) <= 1
  /\ \A r \in SucceededRuns, a \in Range(json) :
       /\ Cardinality(UserStatsOf(a, r)) = 1
       /\ \A n \in WorkerNames(a) : Cardinality(WorkerStatsOf(a, n, r)) = 1

\* C7 happens: an invocation over a full snapshot succeeded in two batches.
C7_Witness ==
  /\ pc = "done"
  /\ run \in SucceededRuns
  /\ Len(json) = MaxUsers
  /\ \A a \in Range(json) : tasks[a].attempts = 1

\* In a transaction's buffer every WorkerStats insert is preceded by the
\* upsert of the Worker it references.
UpsertPrecedesStats(pending) ==
  \A j \in 1..Len(pending) :
    pending[j].tbl = "WorkerStats" =>
      \E k \in 1..(j - 1) :
        /\ pending[k].tbl = "Worker"
        /\ pending[k].row.id = pending[j].row.workerId

\* C8: every WorkerStats row references a Worker that the same transaction
\* of the same invocation created or updated before: inside the transaction
\* the upsert precedes the stats insert, every committed WorkerStats row has
\* its Worker in the store, and the step that commits a WorkerStats row
\* commits the upsert of its Worker with it.
C8_WorkerStatsReferencesWorker ==
  [][/\ \A a \in Addresses : UpsertPrecedesStats(tasks'[a].pending)
     /\ \A x \in store'.workerStats :
          \E w \in store'.workers : w.id = x.workerId /\ w.userAddress = x.by
     /\ \A x \in store'.workerStats \ store.workerStats :
          \E w \in store'.workers \ store.workers :
            w.id = x.workerId /\ w.updated = x.run]_vars

\* C9, the counts: after n invocations that all succeeded, there is one User
\* row per address and one Worker row per (address, worker name), and there
\* are n UserStats rows per address and n WorkerStats rows per worker.
IdentityAndHistoryCounts ==
  (pc = "done" /\ SucceededRuns = 1..run) =>
    \A a \in Range(json) :
      /\ Cardinality({u \in store.users : u.address = a}) = 1
      /\ Cardinality({x \in store.userStats : x.userAddress = a}) = run
      /\ \A n \in WorkerNames(a) :
           /\ Cardinality({w \in store.workers :
                             w.userAddress = a /\ w.name = n}) = 1
           /\ Cardinality(UNION {WorkerStatsOf(a, n, r) : r \in 1..run}) = run

\* C9: idempotent identity with append-only history: the counts above hold
\* after every step, and no step modifies or removes a history row.
C9_IdempotentIdentity ==
  [][/\ IdentityAndHistoryCounts'
     /\ store.userStats \subseteq store'.userStats
     /\ store.workerStats \subseteq store'.workerStats]_vars

\* C9 happens: the last of several invocations over a full snapshot succeeded,
\* as did all before it, and found the rows of the earlier ones.
C9_Witness ==
  /\ pc = "done"
  /\ run = MaxRuns
  /\ SucceededRuns = 1..run
  /\ Len(json) = MaxUsers
  /\ \A a \in Range(json) :
       Cardinality({x \in store.userStats : x.userAddress = a}) = MaxRuns

RECURSIVE Flatten(_)
Flatten(ss) == IF ss = <<>> THEN <<>> ELSE Head(ss) \o Flatten(Tail(ss))

\* ceil(n / b)
CeilDiv(n, b) == (n + b - 1) \div b

PoolStatsOf(rows, r) == {x \in rows : x.run = r}

RoundScaled(v) ==
  IF v.t = "number"
  THEN (2 * v.n * HASHRATE_FACTOR + v.d) \div (2 * v.d)
  ELSE 0

\* The rollup the fallback chain names for the snapshot: the document's own;
\* else the first user's; else that of the first user's first worker; else
\* none.
ChainRollup ==
  LET users == p2pool.users
  IN  IF p2pool.computed_hashrate # {} THEN p2pool.computed_hashrate
      ELSE IF users = <<>> THEN {}
      ELSE IF users[1].computed_hash_rate # {}
           THEN users[1].computed_hash_rate
      ELSE IF ~users[1].hasWorkers \/ users[1].workers = <<>> THEN {}
      ELSE users[1].workers[1].computed_hash_rate

\* The scripts whose p2poolToCkpool resolves the pool-level hashrate.
Resolving == script \in {"seed", "part_001"}

\* C13: the pool-level hashrate follows the fallback chain: the PoolStats row
\* an invocation records holds, window by window, the scaled fields of the
\* document's own rollup if it has one, else of the first user's rollup, else
\* of the rollup of the first user's first worker, else zeros; whatever the
\* other users and workers hold has no influence.
C13_FallbackChain ==
  Resolving =>
    \A x \in PoolStatsOf(poolStats, run) :
      \A w \in Windows : x.hashrate[w] = RoundScaled(Field(ChainRollup, w))

\* C13 happens: a row was recorded from the first worker of the first user,
\* who has no rollup, while a later user has one.
C13_Witness ==
  /\ Resolving
  /\ PoolStatsOf(poolStats, run) # {}
  /\ p2pool.computed_hashrate = {}
  /\ Len(p2pool.users) >= 2
  /\ p2pool.users[1].computed_hash_rate = {}
  /\ p2pool.users[1].workers # <<>>
  /\ p2pool.users[1].workers[1].computed_hash_rate # {}
  /\ p2pool.users[2].computed_hash_rate # {}

\* The PoolStats row of this invocation holds the scaled fields of rollup r.
RecordedScaled(r) ==
  \A x \in PoolStatsOf(poolStats, run) :
    \A w \in Windows : x.hashrate[w] = RoundScaled(Field(r, w))

\* C14 as stated: with no top-level rollup and one user who has a worker
\* with a rollup, the pool-level hashrate recorded is that worker's rollup,
\* scaled field by field.  It fails when the user has a rollup too, which
\* the chain takes first.
C14_WorkerRollupRecorded ==
  (/\ Resolving
   /\ p2pool.computed_hashrate = {}
   /\ Len(p2pool.users) = 1
   /\ Len(WorkersList(p2pool.users[1])) = 1
   /\ p2pool.users[1].workers[1].computed_hash_rate # {})
  => RecordedScaled(p2pool.users[1].workers[1].computed_hash_rate)

\* C14, amended: with no top-level rollup and a first user who has no rollup
\* of their own but whose first worker has one, the pool-level hashrate
\* recorded is that worker's rollup, scaled field by field, a field the
\* rollup lacks being recorded as 0.
C14_FirstWorkerRollupRecorded ==
  (/\ Resolving
   /\ p2pool.computed_hashrate = {}
   /\ Len(p2pool.users) >= 1
   /\ p2pool.users[1].computed_hash_rate = {}
   /\ Len(WorkersList(p2pool.users[1])) >= 1
   /\ p2pool.users[1].workers[1].computed_hash_rate # {})
  => RecordedScaled(p2pool.users[1].workers[1].computed_hash_rate)

\* C14 happens: the row of a snapshot whose only rollup is that of the one
\* worker of its one user has been recorded, with 0 for the field the
\* rollup lacks and the scaled value for a field it has.
C14_Witness ==
  /\ Resolving
  /\ p2pool.computed_hashrate = {}
  /\ Len(p2pool.users) = 1
  /\ p2pool.users[1].computed_hash_rate = {}
  /\ Len(WorkersList(p2pool.users[1])) = 1
  /\ p2pool.users[1].workers[1].computed_hash_rate # {}
  /\ \E x \in PoolStatsOf(poolStats, run) :
       /\ x.hashrate["hashrate_15m"] = 0
       /\ x.hashrate["hashrate_1d"] = 2 * HASHRATE_FACTOR

\* The raw 1-day hashrate of the user at address a in the snapshot.
RawHashrate1d(a) == Field(p2pool.users[a].computed_hash_rate, "hashrate_1d")

\* C15: every hashrate value stored is round(raw * HASHRATE_FACTOR) of the
\* raw snapshot value it comes from, an absent or null value being stored as
\* 0: the 1-day hashrate of every UserStats row of the top users, and every
\* window of the PoolStats row.
C15_StoredHashratesScaled ==
  /\ \A x \in store.userStats :
       x.hashrate1d = RoundScaled(RawHashrate1d(x.userAddress))
  /\ Resolving =>
       \A x \in PoolStatsOf(poolStats, run) :
         \A w \in Windows : x.hashrate[w] = RoundScaled(Field(ChainRollup, w))

\* C16: the normalizer never fails and yields 0 for a value that is negative,
\* not finite or not a number: no invocation is aborted by the normalizer,
\* and no stored pool-level hashrate is negative.
C16_NormalizerNeverFails ==
  /\ \A e \in error : e.kind # "normalize"
  /\ \A x \in PoolStatsOf(poolStats, run) :
       \A w \in Windows : x.hashrate[w] >= 0

\* The ranking order of the top users: a comes before b when its 1-day
\* hashrate (0 if absent) is higher, or equal with a earlier in the snapshot.
Precedes(a, b) ==
  LET x == RawHashrate1d(a)
      y == RawHashrate1d(b)
  IN  \/ x.n * y.d > y.n * x.d
      \/ x.n * y.d = y.n * x.d /\ a < b

\* The addresses of the first m ranked users.
Ranked(m) == {topUsers[k].address : k \in 1..m}

\* C17: once the seed has ranked the users, the top users are min(TOP_USERS,
\* N) of the N users of the snapshot, each selected user comes before every
\* user that is not selected, they are in ranking order, and the users
\* written so far are an initial stretch of that order.
C17_TopUsersSelection ==
  (script = "seed" /\ pc \in {"user", "userStats"}) =>
    LET N == Len(p2pool.users)
        K == Len(topUsers)
    IN  /\ K = Min(TOP_USERS, N)
        /\ Ranked(K) \subseteq 1..N
        /\ \A j \in 1..K, k \in 1..K :
             j < k => Precedes(topUsers[j].address, topUsers[k].address)
        /\ \A a \in Ranked(K), b \in (1..N) \ Ranked(K) : Precedes(a, b)
        /\ \E m \in 0..K :
             /\ {u.address : u \in store.users} = Ranked(m)
             /\ {x.userAddress : x \in store.userStats} \in
                  {Ranked(m), Ranked(m - 1)}

\* C17 happens: of more users than fit, two of whom tie at the cut-off, the
\* earlier was selected after a user with a higher hashrate, and both
\* selected users have been written.
C17_Witness ==
  /\ script = "seed" /\ pc = "user"
  /\ Len(p2pool.users) > TOP_USERS
  /\ i = TOP_USERS
  /\ topUsers[1].address > topUsers[2].address
  /\ \E b \in (1..Len(p2pool.users)) \ Ranked(TOP_USERS) :
       /\ RawHashrate1d(b) = RawHashrate1d(topUsers[TOP_USERS].address)
       /\ b > topUsers[TOP_USERS].address

\* C18: the exit status of a finished invocation is 0 after full success and
\* not 0 after a fatal error (file, parse or connection).
C18_ExitStatus ==
  pc = "done" =>
    /\ error = {} => outcomes[Len(outcomes)] = 0
    /\ (\E e \in error : e.kind = "fatal") => outcomes[Len(outcomes)] # 0

\* C19: for every user the top-N run selected, a run that went through has
\* made the writes of the full ingestion: the User row, a UserStats row with
\* the scaled hashrate, and a Worker and a WorkerStats row for every worker
\* of the user.
C19_SameWritesAsFullIngestion ==
  (script = "seed" /\ pc = "done" /\ error = {}) =>
    \A a \in Ranked(Len(topUsers)) :
      /\ Cardinality({u \in store.users : u.address = a}) = 1
      /\ \E x \in store.userStats :
           /\ x.userAddress = a
           /\ x.hashrate1d = RoundScaled(RawHashrate1d(a))
      /\ Cardinality({w \in store.workers : w.userAddress = a}) =
           Len(WorkersList(p2pool.users[a]))
      /\ Cardinality({x \in store.workerStats : x.by = a}) =
           Len(WorkersList(p2pool.users[a]))

\* The number of entries of the log that are event e.
Occurrences(e) == Cardinality({k \in 1..Len(dbLog) : dbLog[k] = e})

\* C20: the datasource is never initialized after the snapshot failed to
\* read or parse, nothing is saved after an error, and a finished invocation
\* has destroyed the datasource as often as it initialized it, at most once.
C20_HandleReleasedOnce ==
  /\ \A j \in 1..Len(dbLog), k \in 1..Len(dbLog) :
       (j < k /\ dbLog[j] \in {"readError", "normalizeError"}) =>
         dbLog[k] # "initialize"
  /\ \A j \in 1..Len(dbLog), k \in 1..Len(dbLog) :
       (j < k /\ dbLog[j] \in {"readError", "normalizeError",
                               "initializeError", "saveError",
                               "conversionError"}) =>
         dbLog[k] # "save"
  /\ pc = "done" =>
       /\ Occurrences("initialize") = Occurrences("destroy")
       /\ Occurrences("destroy") <= 1


\* ------------------------------------------------- concurrency of one run
\* The address a buffered write is about.
WriteAddress(w) ==
  CASE w.tbl = "User" -> w.row.address
    [] w.tbl = "UserStats" -> w.row.userAddress
    [] w.tbl = "Worker" -> w.row.userAddress
    [] w.tbl = "WorkerStats" -> w.row.by

\* The (address, worker name) keys the buffered Worker writes of a task are
\* about.
WorkerKeys(a) ==
  {<<tasks[a].pending[k].row.userAddress, tasks[a].pending[k].row.name>> :
     k \in {n \in 1..Len(tasks[a].pending) :
              tasks[a].pending[n].tbl = "Worker"}}

\* No address occurs twice among the members of a batch.
Injective(batch) ==
  \A p, q \in 1..Len(batch) : p # q => batch[p] # batch[q]

DisjointInFlight ==
  /\ \A k \in 1..Len(batches) : Injective(batches[k])
  /\ \A a \in OpenTasks :
       /\ Len(batches) > 0
       /\ a \in Range(batches[Len(batches)])
       /\ \A k \in 1..Len(tasks[a].pending) :
            WriteAddress(tasks[a].pending[k]) = a
  /\ \A a, b \in OpenTasks : a # b => WorkerKeys(a) \cap WorkerKeys(b) = {}

\* C21: within one invocation the units of work in flight at the same time
\* are about pairwise different addresses: the members of a batch are
\* different addresses, every unit of work in flight is a member of the
\* batch started last and has written rows of its own address only, no
\* (address, worker name) is written by two of them, and no unit of work is
\* started for an address while one for that address is still in flight.
C21_ConcurrentTasksDisjoint ==
  /\ []DisjointInFlight
  /\ [][\A a \in Addresses :
          tasks'[a].attempts > tasks[a].attempts => tasks[a].st # "open"]_vars

\* Two units of work of one batch are in flight with writes buffered, Worker
\* writes among them.
C21_Witness ==
  \E a, b \in OpenTasks :
    /\ a # b
    /\ WorkerKeys(a) # {}
    /\ tasks[b].pending # <<>>


\* ------------------------------------------------------------- termination
\* One invocation whose pending steps are eventually taken: the file read
\* returns or throws, and every storage call the invocation or one of its
\* units of work is waiting for eventually returns or fails.
SpecTerminating ==
  Init /\ [][NextRetention]_vars /\ WF_vars(NextRetention)

\* The batches an invocation may start: ceil(N / BATCH_SIZE).
MaxBatches == CeilDiv(Len(userEntries), BATCH_SIZE)

\* The invocation has settled and its datasource is destroyed or was never
\* initialized.
Finished == pc = "done" /\ ~dbOpen

\* C22: every invocation terminates: it never starts more than
\* ceil(N / BATCH_SIZE) batches, and from its start it reaches the state in
\* which it has settled with the datasource destroyed, whether the units of
\* work commit or fail.
C22_InvocationTerminates ==
  /\ [](Len(batches) <= MaxBatches)
  /\ (pc = "read") ~> Finished

\* An invocation that finished after starting every batch of a snapshot of
\* more than one batch, a member of the last batch having failed.
C22_Witness ==
  /\ Finished
  /\ Len(batches) = MaxBatches
  /\ Len(batches) > 1
  /\ FailedTasks # {}


\* ------------------------------------------------- lastShare and workerCount
\* The lastshare values of the workers of an address, a worker without one
\* counting as 0.
WorkerLastshares(a) ==
  {LastshareOrZero(WorkerLastshare(a, WorkerEntries(a)[k])) :
     k \in 1..Len(WorkerEntries(a))}

\* The maximum of a set of numbers, 0 for the empty set.
MathMaxOrZero(s) ==
  IF s = {} THEN Number(0)
  ELSE Number(CHOOSE m \in s : \A n \in s : n <= m)

\* The WorkerStats rows invocation r stored for the workers of address a.
WorkerStatsBy(a, r) == {x \in store.workerStats : x.by = a /\ x.run = r}

\* C24: every UserStats row the full ingestion stored has lastShare equal to
\* the maximum lastshare over the user's workers (0 for a worker without
\* lastshare, 0 for a user without workers, whether the mapping is absent or
\* empty) and workerCount equal to the number of WorkerStats rows stored for
\* that user by the same invocation.
C24_LastShareAndWorkerCount ==
  \A r \in store.userStats :
    /\ r.lastShare = MathMaxOrZero(WorkerLastshares(r.userAddress))
    /\ r.workerCount = Cardinality(WorkerStatsBy(r.userAddress, r.run))

\* The same for the users whose workers mapping is absent or holds workers.
C24_ExceptEmptyWorkers ==
  \A r \in store.userStats :
    ~(P2PoolUser(r.userAddress).hasWorkers /\ WorkerEntries(r.userAddress) = <<>>)
    => /\ r.lastShare = MathMaxOrZero(WorkerLastshares(r.userAddress))
       /\ r.workerCount = Cardinality(WorkerStatsBy(r.userAddress, r.run))


\* ------------------------------------------------------------------- getDb
\* getDb of lib/db, called by any number of callers of one process.  A
\* promise is named by the number of the initialize() call it follows.
MaxCallers == 3
MaxInitializations == 3

Callers == 1..MaxCallers

IdleCaller == [st |-> "idle", promise |-> 0]

InitGetDb ==
  /\ json = <<>>
  /\ run = 1
  /\ pc = "done"
  /\ i = 0
  /\ batches = <<>>
  /\ tasks = [a \in Addresses |-> IdleTask]
  /\ store = EmptyStore
  /\ dbOpen = FALSE
  /\ poolInUse = 0
  /\ error = {}
  /\ reported = {}
  /\ outcomes = <<>>
  /\ script = "lib/db"
  /\ p2pool = [computed_hashrate |-> {}, users |-> <<>>]
  /\ poolStats = {}
  /\ topUsers = <<>>
  /\ dbLog = <<>>
  /\ connectionPromise = 0
  /\ initializations = <<>>
  /\ callers = [c \in Callers |-> IdleCaller]
  /\ other = IdleTask

getDbIdle == <<json, run, pc, i, batches, tasks, store, poolInUse, error,
               reported, outcomes, script, p2pool, poolStats, topUsers, other>>

\* A test of the cache that never finds a promise.
NeverCached(p) == FALSE

\* if (!connectionPromise) is not taken: a promise is cached.
Cached(p) == p # 0

\* A caller calls getDb(): up to its return the call runs without
\* interruption.  Without a cached promise it calls initialize() and caches
\* the promise of initialize().catch(...); in both cases it gets the cached
\* promise and waits for it.
G_Call(c) ==
  /\ callers[c].st # "awaiting"
  /\ IF Cached(connectionPromise)
     THEN /\ callers' = [callers EXCEPT
                ![c] = [st |-> "awaiting", promise |-> connectionPromise]]
          /\ UNCHANGED <<connectionPromise, initializations, dbLog>>
     ELSE /\ Len(initializations) < MaxInitializations
          /\ initializations' = Append(initializations, "pending")
          /\ connectionPromise' = Len(initializations')
          /\ dbLog' = Append(dbLog, "initialize")
          /\ callers' = [callers EXCEPT
                ![c] = [st |-> "awaiting", promise |-> connectionPromise']]
  /\ UNCHANGED getDbIdle
  /\ UNCHANGED dbOpen

\* AppDataSource.initialize() fulfils: so does the cached promise.
G_InitializeResolves(k) ==
  /\ initializations[k] = "pending"
  /\ initializations' = [initializations EXCEPT ![k] = "resolved"]
  /\ dbOpen' = TRUE
  /\ UNCHANGED getDbIdle
  /\ UNCHANGED <<connectionPromise, callers, dbLog>>

\* AppDataSource.initialize() rejects: the catch handler is queued.
G_InitializeRejects(k) ==
  /\ initializations[k] = "pending"
  /\ initializations' = [initializations EXCEPT ![k] = "rejected"]
  /\ UNCHANGED getDbIdle
  /\ UNCHANGED <<connectionPromise, callers, dbLog, dbOpen>>

\* The catch handler runs: it logs the error, clears the cache and rethrows,
\* which rejects the promise the callers are waiting for.
G_CatchHandler(k) ==
  /\ initializations[k] = "rejected"
  /\ initializations' = [initializations EXCEPT ![k] = "handled"]
  /\ dbLog' = Append(dbLog, "initializeError")
  /\ connectionPromise' = 0
  /\ UNCHANGED getDbIdle
  /\ UNCHANGED <<callers, dbOpen>>

\* A caller's await of the promise it got returns the datasource or throws.
G_Resume(c) ==
  /\ callers[c].st = "awaiting"
  /\ initializations[callers[c].promise] \in {"resolved", "handled"}
  /\ callers' = [callers EXCEPT ![c].st =
                   IF initializations[callers[c].promise] = "resolved"
                   THEN "db" ELSE "error"]
  /\ UNCHANGED getDbIdle
  /\ UNCHANGED <<connectionPromise, initializations, dbLog, dbOpen>>

NextGetDb ==
  \/ \E c \in Callers :
       \/ G_Call(c)
       \/ G_Resume(c)
  \/ \E k \in 1..Len(initializations) :
       \/ G_InitializeResolves(k)
       \/ G_InitializeRejects(k)
       \/ G_CatchHandler(k)

SpecGetDb == InitGetDb /\ [][NextGetDb]_vars

\* The initializations that have not settled the cached promise yet.
InFlight ==
  {k \in 1..Len(initializations) :
     initializations[k] \in {"pending", "rejected"}}

OneInitializationInFlight ==
  /\ Cardinality(InFlight) <= 1
  /\ \A k \in InFlight : connectionPromise = k
  /\ Cardinality({k \in 1..Len(initializations) :
                    initializations[k] # "handled"}) <= 1
  /\ Occurrences("initialize") = Len(initializations)
  /\ \A k \in 1..Len(initializations) :
       initializations[k] = "handled" => connectionPromise # k
  /\ \A c \in Callers :
       /\ callers[c].st = "awaiting" /\ callers[c].promise \in InFlight
            => callers[c].promise = connectionPromise
       /\ callers[c].st = "error"
            => initializations[callers[c].promise] = "handled"
       /\ callers[c].st = "db"
            => initializations[callers[c].promise] = "resolved"

\* A step in which caller c calls getDb.
Calls(c) == callers[c].st # "awaiting" /\ callers'[c].st = "awaiting"

\* C23: getDb keeps at most one initialization in flight: while one is
\* pending it is the cached promise and every caller gets that promise
\* without a further initialize(); a failed initialization clears the cache
\* and is observed as a failure by every caller that got its promise, never
\* as a datasource; a call that finds the cache empty starts exactly one
\* initialization, and an initialization is started only when every earlier
\* one has failed.
C23_SingleInitialization ==
  [][/\ OneInitializationInFlight'
     /\ \A c \in Callers :
          Calls(c) =>
            IF connectionPromise # 0
            THEN /\ initializations' = initializations
                 /\ callers'[c].promise = connectionPromise
            ELSE /\ Len(initializations') = Len(initializations) + 1
                 /\ callers'[c].promise = Len(initializations')
                 /\ connectionPromise' = Len(initializations')]_vars

\* Two callers observed the failure of the initialization they shared, and a
\* later caller waits for the one initialization started after it.
C23_Witness ==
  \E c, d, e \in Callers :
    /\ c # d
    /\ callers[c].st = "error" /\ callers[d].st = "error"
    /\ callers[c].promise = callers[d].promise
    /\ callers[e].st = "awaiting"
    /\ initializations[callers[e].promise] = "pending"
    /\ Len(initializations) = 2


\* ------------------------------------------------- overlapping invocations
\* The periodic trigger starts an invocation of the batched variant while the
\* previous one is still running.  Both are processes of their own on the
\* same store.  Of the earlier invocation the unit of work of one address is
\* followed; the later invocation is followed whole.
OverlapAddress == 1

\* The number the rows of the earlier invocation carry.
OtherRun == 0

overlapIdle == <<json, run, pc, i, batches, tasks, dbOpen, poolInUse, error,
                 reported, outcomes, seedVars, getDbVars>>

\* A write of the unit of work, as the earlier invocation makes it.
OtherStamp(w) ==
  CASE w.tbl = "User" /\ w.op = "insert" ->
         [w EXCEPT !.row.created = OtherRun, !.row.updated = OtherRun]
    [] w.tbl = "User" /\ w.op = "update" ->
         [w EXCEPT !.row.updated = OtherRun]
    [] w.tbl = "UserStats" ->
         [w EXCEPT !.row.run = OtherRun,
                   !.row.seq = NextSeq({r \in store.userStats :
                                          /\ r.userAddress = w.row.userAddress
                                          /\ r.run = OtherRun})]
    [] w.tbl = "Worker" /\ w.op = "insert" ->
         [w EXCEPT !.row.id = <<w.row.userAddress, w.row.name, OtherRun>>,
                   !.row.created = OtherRun, !.row.updated = OtherRun]
    [] w.tbl = "Worker" /\ w.op = "update" ->
         [w EXCEPT !.row.updated = OtherRun]
    [] OTHER ->
         [w EXCEPT !.row.run = OtherRun,
                   !.row.seq = NextSeq({r \in store.workerStats :
                                          /\ r.workerId = w.row.workerId
                                          /\ r.run = OtherRun})]

\* batch.map of the earlier invocation starts the unit of work.
O_Start ==
  /\ other.st = "idle"
  /\ other' = StartedTask(other)
  /\ UNCHANGED overlapIdle
  /\ UNCHANGED store

\* userRepository.findOne({ where: { address } })
O_FindUser ==
  /\ other.st = "open" /\ other.pos = "findUser"
  /\ \E found \in FindOne({u \in store.users : u.address = OverlapAddress}) :
       other' = [other EXCEPT !.dbUser = found, !.pos = "saveUser"]
  /\ UNCHANGED overlapIdle
  /\ UNCHANGED store

\* userRepository.save(dbUser)
O_SaveUser ==
  /\ other.st = "open" /\ other.pos = "saveUser"
  /\ LET w == OtherStamp(UserWrite(OverlapAddress, other.dbUser))
     IN  other' = [other EXCEPT !.pending = Append(@, w),
                                !.pos = "saveUserStats"]
  /\ UNCHANGED overlapIdle
  /\ UNCHANGED store

\* userStatsRepository.save(userStats), then the worker loop is entered.
O_SaveUserStats ==
  /\ other.st = "open" /\ other.pos = "saveUserStats"
  /\ LET w == OtherStamp(UserStatsWrite(OverlapAddress))
     IN  other' = [other EXCEPT
           !.pending = Append(@, w),
           !.wi = 1,
           !.pos = IF WorkerEntries(OverlapAddress) = <<>> THEN "commit"
                   ELSE "findWorker"]
  /\ UNCHANGED overlapIdle
  /\ UNCHANGED store

\* workerRepository.findOne({ where: { userAddress: address, name } })
O_FindWorker ==
  /\ other.st = "open" /\ other.pos = "findWorker"
  /\ \E found \in FindOne({x \in store.workers :
                             /\ x.userAddress = OverlapAddress
                             /\ x.name = WorkerEntries(OverlapAddress)[other.wi]}) :
       other' = [other EXCEPT !.dbWorker = found, !.pos = "saveWorker"]
  /\ UNCHANGED overlapIdle
  /\ UNCHANGED store

\* savedWorker = workerRepository.save(dbWorker)
O_SaveWorker ==
  /\ other.st = "open" /\ other.pos = "saveWorker"
  /\ LET w == OtherStamp(WorkerWrite(OverlapAddress,
                                     WorkerEntries(OverlapAddress)[other.wi],
                                     other.dbWorker))
     IN  other' = [other EXCEPT !.pending = Append(@, w),
                                !.dbWorker = {w.row},
                                !.pos = "saveWorkerStats"]
  /\ UNCHANGED overlapIdle
  /\ UNCHANGED store

\* workerStatsRepository.save(workerStats), then the next worker or the commit.
O_SaveWorkerStats ==
  /\ other.st = "open" /\ other.pos = "saveWorkerStats"
  /\ LET w == OtherStamp(WorkerStatsWrite(OverlapAddress,
                                          CHOOSE x \in other.dbWorker : TRUE))
         last == other.wi >= Len(WorkerEntries(OverlapAddress))
     IN  other' = [other EXCEPT
           !.pending = Append(@, w),
           !.dbWorker = {},
           !.wi = IF last THEN @ ELSE @ + 1,
           !.pos = IF last THEN "commit" ELSE "findWorker"]
  /\ UNCHANGED overlapIdle
  /\ UNCHANGED store

\* The transaction of the earlier invocation commits.
O_Commit ==
  /\ other.st = "open" /\ other.pos = "commit"
  /\ store' = ApplyAll(store, other.pending)
  /\ other' = SettledTask(other, "committed")
  /\ UNCHANGED overlapIdle

\* A storage call of the earlier invocation's unit of work fails (constraint
\* violation, timeout, lost connection): its transaction is rolled back.
O_Fail ==
  /\ other.st = "open"
  /\ store' = Rollback(store, OverlapAddress)
  /\ other' = SettledTask(other, "failed")
  /\ UNCHANGED overlapIdle

NextOverlap ==
  \/ NextRetention
  \/ O_Start
  \/ O_FindUser
  \/ O_SaveUser
  \/ O_SaveUserStats
  \/ O_FindWorker
  \/ O_SaveWorker
  \/ O_SaveWorkerStats
  \/ O_Commit
  \/ O_Fail

SpecOverlap == Init /\ [][NextOverlap]_vars

\* The User rows of an address and the Worker rows of a worker of it.
UserRows(s, a) == {u \in s.users : u.address = a}
WorkerRows(s, a, name) ==
  {x \in s.workers : x.userAddress = a /\ x.name = name}

C25_HistoryKept ==
  [][/\ store.userStats \subseteq store'.userStats
     /\ store.workerStats \subseteq store'.workerStats]_vars

\* Both invocations committed their unit of work of the address.
C25_BothCommitted ==
  /\ other.st = "committed"
  /\ tasks[OverlapAddress].st = "committed"
====
